---- MODULE Spec2Model ----
(***************************************************************************)
(* A model of react-midi-context (src/src/index.tsx, current variant,      *)
(* lines 602-1075): the status-byte table, the message encoder             *)
(* sendMIDIMessage, the value store of useStoreData and the send facades   *)
(* sendMIDICC / sendMIDINoteOn / sendMIDINoteOff of MIDIProvider.          *)
(*                                                                         *)
(* JavaScript values are modelled as records [t, v]: a number carries its  *)
(* value in v; undefined and a (non-empty, non-numeric) string carry 0.    *)
(* A plain object is a function whose DOMAIN is the set of its own keys.   *)
(***************************************************************************)
EXTENDS Integers, Sequences, FiniteSets, TLC

VARIABLES store, last, calls
VARIABLES variant, midiAccess, midiInputs, midiOutputs, initPhase, onErrorCalls,
          rejections, connectedMIDIInputs, connectedMIDIOutputs, ports, ops,
          subscribers, closedOver

\* the provider's state and the subscriber set of the value store
provVars == <<variant, midiAccess, midiInputs, midiOutputs, initPhase,
              onErrorCalls, rejections, connectedMIDIInputs,
              connectedMIDIOutputs, ports, ops, subscribers, closedOver>>

vars == <<store, last, calls, provVars>>

---------------------------------------------------------------------------
(* Bounds of the model. *)

\* numeric arguments (value, velocity) range over 0..MaxValue
MaxValue == 1
\* number of writes to the store explored from the initial state
MaxCalls == 2
\* number of calls of the add and remove functions explored
MaxOps == 3

---------------------------------------------------------------------------
(* JavaScript values *)

Num(n) == [t |-> "number", v |-> n]
Undefined == [t |-> "undefined", v |-> 0]
StrX == [t |-> "string", v |-> 0]

\* typeof x
typeof(x) == x.t

\* ToBoolean(x): 0 and undefined are falsy, a non-empty string is truthy
Truthy(x) == \/ x.t = "number" /\ x.v # 0
             \/ x.t = "string"

\* a || b
JsOr(a, b) == IF Truthy(a) THEN a ELSE b

\* a ?? b without its default: a itself, undefined included
JsNullish_none(a, b) == a

\* a ?? b
JsNullish(a, b) == IF a.t = "undefined" THEN b ELSE a

\* n + x for a number n: numeric addition, or string concatenation
JsPlus(n, x) == IF x.t = "number" THEN Num(n + x.v)
                ELSE IF x.t = "string" THEN StrX
                ELSE [t |-> "NaN", v |-> 0]

\* sample channels, controller numbers and pitches: 0 (falsy) and another
Channels == {Num(0), Num(1)}
CCs == {Num(0), Num(64)}
Pitches == {Num(0), Num(60)}
Values == {Num(n) : n \in 0..MaxValue}
NonNumbers == {Undefined, StrX}
\* every MIDI channel, for the encoder
AllChannels == {Num(n) : n \in 0..15}

\* output device handles are identified by their id; NoDevice is undefined
DeviceIds == {"out1", "out2"}
NoDevice == "undefined"
DeviceArgs == DeviceIds \cup {NoDevice}

\* a plain object without own keys: {}
EmptyObj == [k \in {} |-> Undefined]

\* {...obj, [k]: v}
Put(obj, k, v) == [x \in (DOMAIN obj) \cup {k} |-> IF x = k THEN v ELSE obj[x]]

HasKey(obj, k) == k \in DOMAIN obj

\* the own keys spread out of obj[k] ({...undefined} spreads nothing)
SpreadOf(obj, k) == IF HasKey(obj, k) THEN obj[k] ELSE EmptyObj

---------------------------------------------------------------------------
(* Status-byte table and message encoder *)

\* message type names: the recognised ones, and some that are not
KnownTypes == {"noteOff", "noteOn", "afterTouch", "cc", "controlChange",
               "programChange", "channelPressure", "pitchWheel"}
UnknownTypes == {"unknownType", "sysex", "NoteOn", ""}
\* props.type left out: the destructuring default 'cc' applies
TypeAbsent == "<absent>"
TypeArgs == KnownTypes \cup UnknownTypes \cup {TypeAbsent}

\* afterTouch without its return: falls through to the next case
translateTypeToStatusByte_fallthrough(type) ==
    CASE type = "noteOff" -> 128
      [] type = "noteOn" -> 144
      [] type = "afterTouch" -> 176
      [] type = "cc" -> 176
      [] type = "controlChange" -> 176
      [] type = "programChange" -> 192
      [] type = "channelPressure" -> 208
      [] type = "pitchWheel" -> 224
      [] OTHER -> 0

translateTypeToStatusByte(type) ==
    CASE type = "noteOff" -> 128          \* 0x80
      [] type = "noteOn" -> 144           \* 0x90
      [] type = "afterTouch" -> 160       \* 0xA0
      [] type = "cc" -> 176               \* 0xB0
      [] type = "controlChange" -> 176    \* 0xB0
      [] type = "programChange" -> 192    \* 0xC0
      [] type = "channelPressure" -> 208  \* 0xD0
      [] type = "pitchWheel" -> 224       \* 0xE0
      [] OTHER -> 0                       \* 0x00

\* the older variant's table with a return in the afterTouch case
translateTypeToStatusByteOld_returns(type) ==
    CASE type = "noteOff" -> 128
      [] type = "noteOn" -> 144
      [] type = "afterTouch" -> 160
      [] type = "cc" -> 176
      [] type = "controlChange" -> 176
      [] type = "programChange" -> 192
      [] type = "channelPressure" -> 208
      [] type = "pitchWheel" -> 224
      [] OTHER -> 0

\* the older variant's table: the afterTouch case holds an expression and no
\* return, so control falls through to the cc case
translateTypeToStatusByteOld(type) ==
    CASE type = "noteOff" -> 128
      [] type = "noteOn" -> 144
      [] type = "afterTouch" -> 176
      [] type = "cc" -> 176
      [] type = "controlChange" -> 176
      [] type = "programChange" -> 192
      [] type = "channelPressure" -> 208
      [] type = "pitchWheel" -> 224
      [] OTHER -> 0

\* what device.send(msg) was handed, and whether it returned or raised
SendEvent(device, msg, ok) == [device |-> device, msg |-> msg, ok |-> ok]

\* sendMIDIMessage(props); sendOk: device.send returns (TRUE) or raises (FALSE)
sendMIDIMessage(props, sendOk) ==
    LET type == IF props.type = TypeAbsent THEN "cc" ELSE props.type
        firstStatusByte == translateTypeToStatusByte(type)
        statusBytes == JsPlus(firstStatusByte, JsNullish(props.channel, Num(0)))
        msg == <<statusBytes, JsOr(props.pitch, JsOr(props.cc, Num(0))),
                 JsOr(props.value, Num(0))>>
    IN  IF props.device # NoDevice
        THEN [firstStatusByte |-> firstStatusByte,
              sent |-> <<SendEvent(props.device, msg, sendOk)>>,
              result |-> IF sendOk THEN "MIDI message successfully sent"
                                   ELSE "an error occured."]
        ELSE [firstStatusByte |-> firstStatusByte,
              sent |-> << >>,
              result |-> "No device specified"]

\* the device argument of the older variant: one handle, a list of handles, or
\* none
OneTarget(d) == [kind |-> "one", list |-> <<d>>]
ListTarget(ds) == [kind |-> "list", list |-> ds]
NoTarget == [kind |-> "none", list |-> << >>]
OldTargets ==
    {NoTarget} \cup {OneTarget(d) : d \in DeviceIds}
    \cup {ListTarget(<< >>)} \cup {ListTarget(<<d>>) : d \in DeviceIds}
    \cup {ListTarget(<<d, e>>) : d \in DeviceIds, e \in DeviceIds}

\* device.forEach((d) => d?.send(msg)): the handles are sent to in order, and
\* the first send that raises ends the loop; okOf[d]: d.send returns
ForEachSend(ds, msg, okOf) ==
    LET firstBad == IF \E i \in DOMAIN ds : ~okOf[ds[i]]
                    THEN CHOOSE i \in DOMAIN ds :
                             /\ ~okOf[ds[i]]
                             /\ \A j \in DOMAIN ds : j < i => okOf[ds[j]]
                    ELSE Len(ds)
    IN  [i \in 1..firstBad |-> SendEvent(ds[i], msg, okOf[ds[i]])]

\* sendMIDIMessage(props) of the older variant; target is props.device;
\* raised: an error left sendMIDIMessage
sendMIDIMessageOld(props, target, okOf) ==
    LET type == IF props.type = TypeAbsent THEN "cc" ELSE props.type
        firstStatusByte == translateTypeToStatusByteOld(type)
        statusBytes == JsPlus(firstStatusByte, JsNullish(props.channel, Num(0)))
        msg == <<statusBytes, JsOr(props.pitch, JsOr(props.cc, Num(0))),
                 JsOr(props.value, Num(0))>>
    IN  IF target.kind = "list"
        THEN LET sent == ForEachSend(target.list, msg, okOf)
                 threw == \E i \in DOMAIN sent : ~sent[i].ok
             IN  [firstStatusByte |-> firstStatusByte, sent |-> sent,
                  raised |-> threw,
                  result |-> IF threw THEN ""
                             ELSE "messages sent successfully to multiple outputs"]
        ELSE IF target.kind = "one"
        THEN LET d == target.list[1]
             IN  [firstStatusByte |-> firstStatusByte,
                  sent |-> <<SendEvent(d, msg, okOf[d])>>,
                  raised |-> FALSE,
                  result |-> IF okOf[d] THEN "MIDI message successfully sent"
                                        ELSE "an error occured."]
        ELSE [firstStatusByte |-> firstStatusByte, sent |-> << >>,
              raised |-> FALSE, result |-> "No device specified"]

---------------------------------------------------------------------------
(* Value store (useStoreData) *)

EmptyStore == [byChannel |-> EmptyObj, byDevice |-> EmptyObj]

\* a write that reaches the by-channel index only
set_byChannelOnly(s, value) ==
    [byChannel |-> Put(s.byChannel, value.channel,
                       Put(SpreadOf(s.byChannel, value.channel), value.cc, value.value)),
     byDevice |-> s.byDevice]

\* a write that leaves a by-channel entry alone once it holds a value
set_firstWriterWins(s, value) ==
    LET row == SpreadOf(s.byChannel, value.channel)
        v == IF HasKey(row, value.cc) THEN row[value.cc] ELSE value.value
    IN  [byChannel |-> Put(s.byChannel, value.channel, Put(row, value.cc, v)),
         byDevice |-> Put(s.byDevice, value.device,
                          Put(SpreadOf(s.byDevice, value.device), value.channel,
                              Put(SpreadOf(SpreadOf(s.byDevice, value.device),
                                           value.channel),
                                  value.cc, value.value)))]

\* a write that also overwrites the entry of every device that has written
\* the same channel and cc before
set_allDevices(s, value) ==
    LET written(d) == \/ d = value.device
                      \/ /\ HasKey(s.byDevice, d)
                         /\ HasKey(s.byDevice[d], value.channel)
                         /\ HasKey(s.byDevice[d][value.channel], value.cc)
        entry(d) == Put(SpreadOf(s.byDevice, d), value.channel,
                        Put(SpreadOf(SpreadOf(s.byDevice, d), value.channel),
                            value.cc, value.value))
        keys == (DOMAIN s.byDevice) \cup {value.device}
    IN  [byChannel |-> Put(s.byChannel, value.channel,
                           Put(SpreadOf(s.byChannel, value.channel),
                               value.cc, value.value)),
         byDevice |-> [d \in keys |-> IF written(d) THEN entry(d)
                                      ELSE s.byDevice[d]]]

\* a write whose by-device entry takes the value the by-channel index held
\* before the write, when it held one
set_staleDevice(s, value) ==
    LET row == SpreadOf(s.byChannel, value.channel)
        v == IF HasKey(row, value.cc) THEN row[value.cc] ELSE value.value
    IN  [byChannel |-> Put(s.byChannel, value.channel,
                           Put(row, value.cc, value.value)),
         byDevice |-> Put(s.byDevice, value.device,
                          Put(SpreadOf(s.byDevice, value.device), value.channel,
                              Put(SpreadOf(SpreadOf(s.byDevice, value.device),
                                           value.channel),
                                  value.cc, v)))]

\* set(value): store.current is replaced by one new object holding both indexes
set(s, value) ==
    [byChannel |-> Put(s.byChannel, value.channel,
                       Put(SpreadOf(s.byChannel, value.channel), value.cc, value.value)),
     byDevice |-> Put(s.byDevice, value.device,
                      Put(SpreadOf(s.byDevice, value.device), value.channel,
                          Put(SpreadOf(SpreadOf(s.byDevice, value.device), value.channel),
                              value.cc, value.value)))]

\* the argument of get: absent = TRUE is get() without an argument
GetProps ==
    [channel : Channels \cup {Undefined}, cc : CCs \cup {Undefined},
     device : DeviceArgs, absent : {FALSE}]
    \cup {[channel |-> Undefined, cc |-> Undefined, device |-> NoDevice, absent |-> TRUE]}

\* results of get: kind says what was returned (or that a TypeError was raised);
\* val is the value for kind "value", the channel's own map for kind "channel"
Result(kind, val) == [kind |-> kind, val |-> val]

\* get(props)
get(s, props) ==
    IF props.absent THEN Result("store", Undefined)
    ELSE IF props.device # NoDevice
    THEN \* [...store.current.byDevice[device.id]]: byDevice[id] is undefined or a
         \* plain object {channel: {cc: value}}; neither is iterable
         Result("TypeError", Undefined)
    ELSE IF ~Truthy(props.channel) THEN Result("store", Undefined)
    ELSE IF ~Truthy(props.cc)
    THEN IF HasKey(s.byChannel, props.channel)
         THEN Result("channel", s.byChannel[props.channel])
         ELSE Result("undefined", Undefined)
    ELSE IF ~HasKey(s.byChannel, props.channel)
    THEN \* undefined[cc]
         Result("TypeError", Undefined)
    ELSE IF HasKey(s.byChannel[props.channel], props.cc)
    THEN Result("value", s.byChannel[props.channel][props.cc])
    ELSE Result("undefined", Undefined)

---------------------------------------------------------------------------
(* Send facades of MIDIProvider *)

\* the device field of the command a device-bound helper is given: left out,
\* a device, or present and undefined
DeviceAbsent == "<absent>"
CommandDevices == DeviceIds \cup {DeviceAbsent, NoDevice}

\* the device of {device, ...command}: the spread comes last, so a device key
\* of the command, whatever its value, replaces the bound device
bindDevice(bound, given) == IF given = DeviceAbsent THEN bound ELSE given

\* typeof checks of sendMIDICC replaced by truthiness checks (!channel, !cc, !value)
ccArgsValid_truthy(channel, cc, value, device) ==
    /\ Truthy(channel)
    /\ Truthy(cc)
    /\ Truthy(value)
    /\ device # NoDevice

\* sendMIDICC without its check of value
ccArgsValid_noValueCheck(channel, cc, value, device) ==
    /\ typeof(channel) = "number"
    /\ typeof(cc) = "number"
    /\ device # NoDevice

\* the four checks of sendMIDICC: none of them throws
ccArgsValid(channel, cc, value, device) ==
    /\ typeof(channel) = "number"
    /\ typeof(cc) = "number"
    /\ typeof(value) = "number"
    /\ device # NoDevice

\* the four checks of sendMIDINoteOn: none of them throws
noteOnArgsValid(channel, pitch, value, velocity, device) ==
    /\ typeof(channel) = "number"
    /\ typeof(pitch) = "number"
    /\ ~(typeof(velocity) # "number" /\ typeof(value) # "number")
    /\ device # NoDevice

\* value || velocity in place of value ?? velocity
noteOnValue_or(value, velocity) == JsOr(value, velocity)

\* the value sendMIDINoteOn hands to sendMIDIMessage: value ?? velocity
noteOnValue(value, velocity) == JsNullish(value, velocity)

\* truthiness checks (!channel, !pitch) in place of the typeof checks
noteOffArgsValid_truthy(channel, pitch, device) ==
    /\ Truthy(channel)
    /\ Truthy(pitch)
    /\ device # NoDevice

\* the three checks of sendMIDINoteOff: none of them throws
noteOffArgsValid(channel, pitch, device) ==
    /\ typeof(channel) = "number"
    /\ typeof(pitch) = "number"
    /\ device # NoDevice

\* the props object a call hands to sendMIDIMessage (fields left out are undefined)
Props(type, channel, cc, pitch, value, device) ==
    [type |-> type, channel |-> channel, cc |-> cc, pitch |-> pitch,
     value |-> value, device |-> device]

---------------------------------------------------------------------------
(* Provider (MIDIProvider): access, device registries, opening and closing. *)

\* device handles are objects: two handles can carry the same id and still be
\* two objects ("in1#a" and "in1#b" both have id "in1")
Inputs == {"in1#a", "in1#b", "in2#a", "in3#a"}
Outputs == {"out1#a", "out1#b", "out2#a"}
HandleId(h) ==
    CASE h \in {"in1#a", "in1#b"} -> "in1"
      [] h = "in2#a" -> "in2"
      [] h = "in3#a" -> "in3"
      [] h \in {"out1#a", "out1#b"} -> "out1"
      [] h = "out2#a" -> "out2"

\* what MIDIAccess.inputs and MIDIAccess.outputs list once access is granted
PlatformInputs == <<"in1#a", "in2#a", "in3#a">>
PlatformOutputs == <<"out1#a", "out2#a">>

\* input.open is a function on every handle but "in3#a", which has none
HasOpen(h) == h # "in3#a"

\* the callback argument of addMIDIInput
NoCallback == "undefined"
Callbacks == {"cb1", "cb2"}

\* a port as the library sees it: connection, the onmidimessage handler
\* ("null", "plain" for the bare logger, "callback" for the wrapped callback),
\* the number of open() and close() promises that have not settled, and
\* closeAfterOpen: close() has been invoked since open() was last invoked
ClosedPort == [connection |-> "closed", onmidimessage |-> "null",
               opening |-> 0, closing |-> 0, closeAfterOpen |-> FALSE]

\* reducer(state, action) with action.type 'remove' where only the very handle
\* given is taken out
reducer_removeByIdentity(state, action) ==
    IF action.type = "add"
    THEN IF \E i \in DOMAIN state : state[i] = action.value
         THEN state
         ELSE Append(state, action.value)
    ELSE LET keep(item) == item # action.value
         IN  SelectSeq(state, keep)

\* reducer(state, action): 'add' goes through a Set, which keeps one entry per
\* object in order of first insertion; 'remove' filters on the id
reducer(state, action) ==
    IF action.type = "add"
    THEN IF \E i \in DOMAIN state : state[i] = action.value
         THEN state
         ELSE Append(state, action.value)
    ELSE LET keep(item) == ~(HandleId(action.value) = HandleId(item))
         IN  SelectSeq(state, keep)

\* the guard of the add functions read the other way round: access is there
accessReady_always(access) == TRUE

\* !(!midiAccess || !('inputs' in midiAccess)), and the older variant's
\* 'inputs' in midiAccess with midiAccess starting as {}
accessReady(access) == access = "access"

\* a failure of initializeMIDI that reaches nobody
surfaceFailure_silent(v, errs, rejs) == [onErrorCalls |-> errs, rejections |-> rejs]

\* a failure of initializeMIDI: the current variant hands the error to onError,
\* the older variant's promise is rejected
surfaceFailure(v, errs, rejs) ==
    IF v = "current"
    THEN [onErrorCalls |-> errs + 1, rejections |-> rejs]
    ELSE [onErrorCalls |-> errs, rejections |-> rejs + 1]

\* openMIDIInput({input, callback}) up to its await, input being a handle:
\* the port afterwards, what was done to it in order, and how the call stands
\* ("returned": it returned the input, "rejected": it threw, "awaiting": it
\* waits for input.open())
\* what typeof says of the input argument
typeofInput(x) ==
    CASE x = "undefined" -> "undefined"
      [] x = "null" -> "object"
      [] x \in Inputs -> "object"
      [] OTHER -> "string"

\* what addMIDIInput can be handed that is no handle
NonHandles == {"undefined", "null", "'in1'"}

\* openMIDIInput({input, callback}) with an input that is no handle: typeof
\* tells undefined and strings apart from objects and the Error object is
\* returned; null is an object to typeof and reading null.connection throws
openMIDIInputNonHandle(x) ==
    IF typeofInput(x) # "object" THEN "returned" ELSE "rejected"

\* openMIDIInput that opens again whatever the connection is
openMIDIInput_alwaysReopen(h, port, callback) ==
    LET handler == IF callback # NoCallback THEN "callback" ELSE "plain"
    IN  IF ~HasOpen(h)
        THEN [port |-> [port EXCEPT !.onmidimessage = handler],
              events |-> <<"onmidimessage">>, outcome |-> "rejected"]
        ELSE [port |-> [port EXCEPT !.onmidimessage = handler,
                                    !.opening = @ + 1,
                                    !.closeAfterOpen = FALSE],
              events |-> <<"onmidimessage", "open">>, outcome |-> "awaiting"]

\* openMIDIInput without the await: it returns while input.open() is pending
openMIDIInput_noAwait(h, port, callback) ==
    LET handler == IF callback # NoCallback THEN "callback" ELSE "plain"
    IN  IF port.connection = "open" /\ callback = NoCallback
        THEN [port |-> port, events |-> << >>, outcome |-> "returned"]
        ELSE IF ~HasOpen(h)
        THEN [port |-> [port EXCEPT !.onmidimessage = handler],
              events |-> <<"onmidimessage">>, outcome |-> "rejected"]
        ELSE [port |-> [port EXCEPT !.onmidimessage = handler,
                                    !.opening = @ + 1,
                                    !.closeAfterOpen = FALSE],
              events |-> <<"onmidimessage", "open">>, outcome |-> "returned"]

\* openMIDIInput on handles that all have an open function
openMIDIInput_openAnyway(h, port, callback) ==
    LET handler == IF callback # NoCallback THEN "callback" ELSE "plain"
    IN  IF port.connection = "open" /\ callback = NoCallback
        THEN [port |-> port, events |-> << >>, outcome |-> "returned"]
        ELSE [port |-> [port EXCEPT !.onmidimessage = handler,
                                    !.opening = @ + 1,
                                    !.closeAfterOpen = FALSE],
              events |-> <<"onmidimessage", "open">>, outcome |-> "awaiting"]

openMIDIInput(h, port, callback) ==
    LET handler == IF callback # NoCallback THEN "callback" ELSE "plain"
    IN  IF port.connection = "open" /\ callback = NoCallback
        THEN [port |-> port, events |-> << >>, outcome |-> "returned"]
        ELSE IF ~HasOpen(h)
        THEN [port |-> [port EXCEPT !.onmidimessage = handler],
              events |-> <<"onmidimessage">>, outcome |-> "rejected"]
        ELSE [port |-> [port EXCEPT !.onmidimessage = handler,
                                    !.opening = @ + 1,
                                    !.closeAfterOpen = FALSE],
              events |-> <<"onmidimessage", "open">>, outcome |-> "awaiting"]

---------------------------------------------------------------------------
(* State: store is store.current; last records the most recent call, its    *)
(* arguments and what it did; calls counts the writes to the store.         *)

\* the record of a call: op and arguments; raised: an Error reached the caller;
\* sent: the calls of device.send, in order; events: "send" for the call of
\* sendMIDIMessage, "set" for the call of setMIDIValue, in order;
\* firstStatusByte: what translateTypeToStatusByte returned; result: the string
\* sendMIDIMessage returned; got: what get returned
NoCall == [op |-> "none", type |-> TypeAbsent, channel |-> Undefined, cc |-> Undefined,
           pitch |-> Undefined, value |-> Undefined, velocity |-> Undefined,
           device |-> NoDevice, bound |-> NoDevice, callback |-> "undefined",
           absent |-> FALSE,
           raised |-> FALSE,
           sent |-> << >>, events |-> << >>, firstStatusByte |-> 0,
           result |-> "", got |-> Result("none", Undefined)]

\* useState(null) of the current variant, useState({}) of the older one
InitialAccess(v) == IF v = "current" THEN "null" ELSE "{}"

\* the provider as constructed: nothing requested, nothing connected;
\* closedOver is the midiAccess the older variant's memoized addMIDIInput and
\* addMIDIOutput have closed over: that of the render in which their
\* dependency, the registry, last changed
\* (the current variant lists midiAccess among the dependencies)
ProviderInit(v) ==
    /\ variant = v
    /\ midiAccess = InitialAccess(v)
    /\ midiInputs = << >>
    /\ midiOutputs = << >>
    /\ initPhase = "mounted"
    /\ onErrorCalls = 0
    /\ rejections = 0
    /\ connectedMIDIInputs = << >>
    /\ connectedMIDIOutputs = << >>
    /\ ports = [h \in Inputs |-> ClosedPort]
    /\ ops = 0
    /\ subscribers = {}
    /\ closedOver = [addMIDIInput |-> InitialAccess(v),
                     addMIDIOutput |-> InitialAccess(v)]

Init ==
    /\ store = EmptyStore
    /\ last = NoCall
    /\ calls = 0
    /\ ProviderInit("current")

\* either variant of the provider
InitProvider ==
    /\ store = EmptyStore
    /\ last = NoCall
    /\ calls = 0
    /\ \E v \in {"current", "older"} : ProviderInit(v)

\* no call is on record: the previous one, if any, has been forgotten
Idle == last.op = "none"

\* the record of the previous call is dropped before the next call is made;
\* the program's own state is left as it is
Forget ==
    /\ ~Idle
    /\ last' = NoCall
    /\ UNCHANGED <<store, calls, provVars>>

ChannelArgs == Channels \cup NonNumbers
CCArgs == CCs \cup NonNumbers
PitchArgs == Pitches \cup {Undefined}
ValueArgs == Values \cup NonNumbers
VelocityArgs == Values \cup {Undefined}

\* setMIDIValue({channel, cc, value, device}) on the store alone
SetMIDIValue ==
    /\ Idle
    /\ UNCHANGED provVars
    /\ \E channel \in Channels, cc \in CCs, value \in Values, device \in DeviceIds :
        /\ calls < MaxCalls
        /\ store' = set(store, [channel |-> channel, cc |-> cc,
                                value |-> value, device |-> device])
        /\ last' = [NoCall EXCEPT !.op = "set", !.channel = channel, !.cc = cc,
                                  !.value = value, !.device = device,
                                  !.events = <<"set">>]
        /\ calls' = calls + 1

\* getMIDIValue(props)
GetMIDIValue ==
    /\ Idle
    /\ UNCHANGED provVars
    /\ \E props \in GetProps :
        /\ last' = [NoCall EXCEPT !.op = "get", !.channel = props.channel,
                                  !.cc = props.cc, !.device = props.device,
                                  !.absent = props.absent,
                                  !.raised = (get(store, props).kind = "TypeError"),
                                  !.got = get(store, props)]
        /\ UNCHANGED <<store, calls>>

\* sendMIDICC({channel, cc, value, device})
SendMIDICC ==
    /\ Idle
    /\ UNCHANGED provVars
    /\ \E channel \in ChannelArgs, cc \in CCArgs, value \in ValueArgs,
          device \in DeviceArgs, sendOk \in BOOLEAN :
        /\ device = NoDevice => sendOk
        /\ IF ~ccArgsValid(channel, cc, value, device)
           THEN /\ last' = [NoCall EXCEPT !.op = "sendMIDICC", !.channel = channel,
                                          !.cc = cc, !.value = value,
                                          !.device = device, !.raised = TRUE]
                /\ UNCHANGED <<store, calls>>
           ELSE LET r == sendMIDIMessage(Props("cc", channel, cc, Undefined,
                                               value, device), sendOk)
                IN  /\ calls < MaxCalls
                    /\ calls' = calls + 1
                    /\ store' = set(store, [channel |-> channel, cc |-> cc,
                                            value |-> value, device |-> device])
                    /\ last' = [NoCall EXCEPT !.op = "sendMIDICC", !.type = "cc",
                                   !.channel = channel, !.cc = cc, !.value = value,
                                   !.device = device, !.sent = r.sent,
                                   !.firstStatusByte = r.firstStatusByte,
                                   !.result = r.result,
                                   !.events = <<"send", "set">>]

\* sendMIDINoteOn({channel, pitch, value, velocity, device})
SendMIDINoteOn ==
    /\ Idle
    /\ UNCHANGED provVars
    /\ \E channel \in ChannelArgs, pitch \in PitchArgs, value \in ValueArgs,
          velocity \in VelocityArgs, device \in DeviceArgs, sendOk \in BOOLEAN :
        /\ device = NoDevice => sendOk
        /\ UNCHANGED <<store, calls>>
        /\ IF ~noteOnArgsValid(channel, pitch, value, velocity, device)
           THEN last' = [NoCall EXCEPT !.op = "sendMIDINoteOn", !.channel = channel,
                                       !.pitch = pitch, !.value = value,
                                       !.velocity = velocity, !.device = device,
                                       !.raised = TRUE]
           ELSE LET r == sendMIDIMessage(Props("noteOn", channel, Undefined, pitch,
                                               noteOnValue(value, velocity), device),
                                         sendOk)
                IN  last' = [NoCall EXCEPT !.op = "sendMIDINoteOn", !.type = "noteOn",
                                !.channel = channel, !.pitch = pitch, !.value = value,
                                !.velocity = velocity, !.device = device,
                                !.sent = r.sent,
                                !.firstStatusByte = r.firstStatusByte,
                                !.result = r.result, !.events = <<"send">>]

\* sendMIDINoteOff({channel, pitch, device})
SendMIDINoteOff ==
    /\ Idle
    /\ UNCHANGED provVars
    /\ \E channel \in ChannelArgs, pitch \in PitchArgs, device \in DeviceArgs,
          sendOk \in BOOLEAN :
        /\ device = NoDevice => sendOk
        /\ UNCHANGED <<store, calls>>
        /\ IF ~noteOffArgsValid(channel, pitch, device)
           THEN last' = [NoCall EXCEPT !.op = "sendMIDINoteOff", !.channel = channel,
                                       !.pitch = pitch, !.device = device,
                                       !.raised = TRUE]
           ELSE LET r == sendMIDIMessage(Props("noteOff", channel, Undefined, pitch,
                                               Num(0), device), sendOk)
                IN  last' = [NoCall EXCEPT !.op = "sendMIDINoteOff", !.type = "noteOff",
                                !.channel = channel, !.pitch = pitch,
                                !.device = device, !.sent = r.sent,
                                !.firstStatusByte = r.firstStatusByte,
                                !.result = r.result, !.events = <<"send">>]

\* sendMIDIMessage(props) called directly, as the context value exposes it
SendMIDIMessage ==
    /\ Idle
    /\ UNCHANGED provVars
    /\ \E type \in TypeArgs, channel \in AllChannels \cup {Undefined},
          cc \in CCs \cup {Undefined}, pitch \in Pitches \cup {Undefined},
          value \in Values \cup {Undefined}, device \in DeviceArgs, sendOk \in BOOLEAN :
        /\ device = NoDevice => sendOk
        /\ LET r == sendMIDIMessage(Props(type, channel, cc, pitch, value, device),
                                    sendOk)
           IN  last' = [NoCall EXCEPT !.op = "sendMIDIMessage", !.type = type,
                           !.channel = channel, !.cc = cc, !.pitch = pitch,
                           !.value = value, !.device = device, !.sent = r.sent,
                           !.firstStatusByte = r.firstStatusByte,
                           !.result = r.result, !.events = <<"send">>]
        /\ UNCHANGED <<store, calls>>

\* the helpers useMIDIOutput(requestedDevice), with a device found, and
\* useMIDIActions(device) return: each calls the provider's function with
\* {device, ...command}; bound is the device of the hook, the record keeps the
\* device the provider's function was handed
BoundSendMIDICC ==
    /\ Idle
    /\ UNCHANGED provVars
    /\ \E bound \in DeviceIds, given \in CommandDevices, channel \in Channels,
          cc \in CCs, value \in Values, sendOk \in BOOLEAN :
        LET device == bindDevice(bound, given)
            call == [NoCall EXCEPT !.op = "bound.sendMIDICC", !.bound = bound,
                                   !.channel = channel, !.cc = cc,
                                   !.value = value, !.device = device]
        IN  /\ device = NoDevice => sendOk
            /\ IF ~ccArgsValid(channel, cc, value, device)
               THEN /\ last' = [call EXCEPT !.raised = TRUE]
                    /\ UNCHANGED <<store, calls>>
               ELSE LET r == sendMIDIMessage(Props("cc", channel, cc, Undefined,
                                                   value, device), sendOk)
                    IN  /\ calls < MaxCalls
                        /\ calls' = calls + 1
                        /\ store' = set(store, [channel |-> channel, cc |-> cc,
                                                value |-> value,
                                                device |-> device])
                        /\ last' = [call EXCEPT !.type = "cc", !.sent = r.sent,
                                        !.firstStatusByte = r.firstStatusByte,
                                        !.result = r.result,
                                        !.events = <<"send", "set">>]

BoundSendMIDIMessage ==
    /\ Idle
    /\ UNCHANGED provVars
    /\ \E bound \in DeviceIds, given \in CommandDevices,
          type \in {"cc", "noteOn", TypeAbsent}, channel \in Channels,
          cc \in CCs, value \in Values, sendOk \in BOOLEAN :
        LET device == bindDevice(bound, given)
            r == sendMIDIMessage(Props(type, channel, cc, Undefined, value,
                                       device), sendOk)
        IN  /\ device = NoDevice => sendOk
            /\ last' = [NoCall EXCEPT !.op = "bound.sendMIDIMessage",
                            !.bound = bound, !.type = type, !.channel = channel,
                            !.cc = cc, !.value = value, !.device = device,
                            !.sent = r.sent,
                            !.firstStatusByte = r.firstStatusByte,
                            !.result = r.result, !.events = <<"send">>]
            /\ UNCHANGED <<store, calls>>

BoundSendMIDINoteOn ==
    /\ Idle
    /\ UNCHANGED provVars
    /\ \E bound \in DeviceIds, given \in CommandDevices, channel \in Channels,
          pitch \in Pitches, value \in ValueArgs, velocity \in VelocityArgs,
          sendOk \in BOOLEAN :
        LET device == bindDevice(bound, given)
            call == [NoCall EXCEPT !.op = "bound.sendMIDINoteOn",
                                   !.bound = bound, !.channel = channel,
                                   !.pitch = pitch, !.value = value,
                                   !.velocity = velocity, !.device = device]
        IN  /\ device = NoDevice => sendOk
            /\ UNCHANGED <<store, calls>>
            /\ IF ~noteOnArgsValid(channel, pitch, value, velocity, device)
               THEN last' = [call EXCEPT !.raised = TRUE]
               ELSE LET r == sendMIDIMessage(Props("noteOn", channel, Undefined,
                                                   pitch,
                                                   noteOnValue(value, velocity),
                                                   device), sendOk)
                    IN  last' = [call EXCEPT !.type = "noteOn", !.sent = r.sent,
                                    !.firstStatusByte = r.firstStatusByte,
                                    !.result = r.result, !.events = <<"send">>]

BoundSendMIDINoteOff ==
    /\ Idle
    /\ UNCHANGED provVars
    /\ \E bound \in DeviceIds, given \in CommandDevices, channel \in Channels,
          pitch \in Pitches, sendOk \in BOOLEAN :
        LET device == bindDevice(bound, given)
            call == [NoCall EXCEPT !.op = "bound.sendMIDINoteOff",
                                   !.bound = bound, !.channel = channel,
                                   !.pitch = pitch, !.device = device]
        IN  /\ device = NoDevice => sendOk
            /\ UNCHANGED <<store, calls>>
            /\ IF ~noteOffArgsValid(channel, pitch, device)
               THEN last' = [call EXCEPT !.raised = TRUE]
               ELSE LET r == sendMIDIMessage(Props("noteOff", channel, Undefined,
                                                   pitch, Num(0), device),
                                             sendOk)
                    IN  last' = [call EXCEPT !.type = "noteOff", !.sent = r.sent,
                                    !.firstStatusByte = r.firstStatusByte,
                                    !.result = r.result, !.events = <<"send">>]

\* sendMIDIMessage(props) of the older variant, called directly; the record
\* keeps "list" as device when a list of handles was given
SendMIDIMessageOld ==
    /\ Idle
    /\ UNCHANGED provVars
    /\ \E type \in TypeArgs,
          channel \in Channels \cup {Undefined}, cc \in CCs \cup {Undefined},
          value \in Values \cup {Undefined}, target \in OldTargets,
          okOf \in [DeviceIds -> BOOLEAN] :
        /\ \A d \in DeviceIds :
               (\A i \in DOMAIN target.list : target.list[i] # d) => okOf[d]
        /\ LET r == sendMIDIMessageOld(Props(type, channel, cc, Undefined, value,
                                             NoDevice), target, okOf)
           IN  last' = [NoCall EXCEPT !.op = "sendMIDIMessageOld", !.type = type,
                           !.channel = channel, !.cc = cc, !.value = value,
                           !.device = IF target.kind = "one" THEN target.list[1]
                                      ELSE IF target.kind = "list" THEN "list"
                                      ELSE NoDevice,
                           !.sent = r.sent, !.raised = r.raised,
                           !.firstStatusByte = r.firstStatusByte,
                           !.result = r.result, !.events = <<"send">>]
        /\ UNCHANGED <<store, calls>>

\* what the provider's own actions leave alone
sendVars == <<store, calls, subscribers, closedOver>>

\* initPhase: "mounted" before the effect has run, "requesting" while
\* requestMIDIAccess is awaited, then "granted", or "unsupported" (no
\* requestMIDIAccess in navigator) or "denied" (the request was rejected)
\* the effect run once after mounting: initializeMIDI up to its await
InitializeMIDI ==
    /\ initPhase = "mounted"
    /\ \E supported \in BOOLEAN :
        IF supported
        THEN /\ initPhase' = "requesting"
             /\ UNCHANGED <<onErrorCalls, rejections>>
        ELSE LET f == surfaceFailure(variant, onErrorCalls, rejections)
             IN  /\ initPhase' = "unsupported"
                 /\ onErrorCalls' = f.onErrorCalls
                 /\ rejections' = f.rejections
    /\ UNCHANGED <<variant, midiAccess, midiInputs, midiOutputs,
                   connectedMIDIInputs, connectedMIDIOutputs, ports, ops,
                   last, sendVars>>

\* navigator.requestMIDIAccess() resolves: the three setters run
AccessGranted ==
    /\ initPhase = "requesting"
    /\ initPhase' = "granted"
    /\ midiAccess' = "access"
    /\ midiInputs' = PlatformInputs
    /\ midiOutputs' = PlatformOutputs
    /\ UNCHANGED <<variant, onErrorCalls, rejections, connectedMIDIInputs,
                   connectedMIDIOutputs, ports, ops, last, sendVars>>

\* navigator.requestMIDIAccess() rejects: the await throws
AccessRejected ==
    /\ initPhase = "requesting"
    /\ LET f == surfaceFailure(variant, onErrorCalls, rejections)
       IN  /\ initPhase' = "denied"
           /\ onErrorCalls' = f.onErrorCalls
           /\ rejections' = f.rejections
    /\ UNCHANGED <<variant, midiAccess, midiInputs, midiOutputs,
                   connectedMIDIInputs, connectedMIDIOutputs, ports, ops,
                   last, sendVars>>

\* addMIDIInput(input, callback) of the current variant, up to its await; the
\* record keeps what was done to the handle and "pending" as result while the
\* call waits for input.open()
AddMIDIInput ==
    /\ Idle
    /\ variant = "current"
    /\ ops < MaxOps
    /\ \E input \in Inputs, callback \in {NoCallback} \cup Callbacks :
        LET call == [NoCall EXCEPT !.op = "addMIDIInput", !.device = input,
                                   !.callback = callback]
        IN  IF ~accessReady(midiAccess)
            THEN /\ last' = [call EXCEPT !.result = "false"]
                 /\ UNCHANGED <<ports, connectedMIDIInputs>>
            ELSE LET r == openMIDIInput(input, ports[input], callback)
                 IN  /\ ports' = [ports EXCEPT ![input] = r.port]
                     /\ IF r.outcome = "returned"
                        THEN /\ connectedMIDIInputs' =
                                    reducer(connectedMIDIInputs,
                                            [type |-> "add", value |-> input])
                             /\ last' = [call EXCEPT !.result = "true",
                                             !.events = r.events \o <<"add">>]
                        ELSE /\ UNCHANGED connectedMIDIInputs
                             /\ last' = [call EXCEPT
                                    !.result = IF r.outcome = "rejected"
                                               THEN "false" ELSE "pending",
                                    !.events = r.events]
    /\ ops' = ops + 1
    /\ UNCHANGED <<variant, midiAccess, midiInputs, midiOutputs, initPhase,
                   onErrorCalls, rejections, connectedMIDIOutputs, sendVars>>

\* addMIDIInput(input, callback) of the current variant with an input that is
\* no handle: undefined, null or a string
AddMIDIInputNonHandle ==
    /\ Idle
    /\ variant = "current"
    /\ ops < MaxOps
    /\ \E input \in NonHandles, callback \in {NoCallback} \cup Callbacks :
        LET call == [NoCall EXCEPT !.op = "addMIDIInput", !.device = input,
                                   !.callback = callback]
        IN  IF ~accessReady(midiAccess)
            THEN /\ last' = [call EXCEPT !.result = "false"]
                 /\ UNCHANGED connectedMIDIInputs
            ELSE IF openMIDIInputNonHandle(input) = "returned"
            THEN /\ connectedMIDIInputs' =
                        reducer(connectedMIDIInputs,
                                [type |-> "add", value |-> input])
                 /\ last' = [call EXCEPT !.result = "true",
                                 !.events = <<"add">>]
            ELSE /\ UNCHANGED connectedMIDIInputs
                 /\ last' = [call EXCEPT !.result = "false"]
    /\ ops' = ops + 1
    /\ UNCHANGED <<variant, midiAccess, midiInputs, midiOutputs, initPhase,
                   onErrorCalls, rejections, connectedMIDIOutputs, ports,
                   sendVars>>

\* input.open() resolves: the call of addMIDIInput that awaited it dispatches
\* 'add' and resolves true
OpenResolves ==
    /\ \E input \in Inputs :
        /\ ports[input].opening > 0
        /\ ports' = [ports EXCEPT ![input].opening = @ - 1,
                                  ![input].connection = "open"]
        /\ connectedMIDIInputs' = reducer(connectedMIDIInputs,
                                          [type |-> "add", value |-> input])
        /\ last' = [NoCall EXCEPT !.op = "addMIDIInput", !.device = input,
                        !.result = "true", !.events = <<"opened", "add">>]
    /\ UNCHANGED <<variant, midiAccess, midiInputs, midiOutputs, initPhase,
                   onErrorCalls, rejections, connectedMIDIOutputs, ops,
                   sendVars>>

\* input.open() rejects: the call of addMIDIInput that awaited it catches the
\* error and resolves false
OpenRejects ==
    /\ \E input \in Inputs :
        /\ ports[input].opening > 0
        /\ ports' = [ports EXCEPT ![input].opening = @ - 1]
        /\ last' = [NoCall EXCEPT !.op = "addMIDIInput", !.device = input,
                        !.result = "false", !.events = <<"open failed">>]
    /\ UNCHANGED <<variant, midiAccess, midiInputs, midiOutputs, initPhase,
                   onErrorCalls, rejections, connectedMIDIInputs,
                   connectedMIDIOutputs, ops, sendVars>>

\* removeMIDIInput(input) of the current variant: closeMIDIInput is called and
\* not awaited, then 'remove' is dispatched
RemoveMIDIInput ==
    /\ Idle
    /\ variant = "current"
    /\ ops < MaxOps
    /\ \E input \in Inputs :
        /\ ports' = [ports EXCEPT ![input].closing = @ + 1,
                                  ![input].closeAfterOpen = TRUE]
        /\ connectedMIDIInputs' = reducer(connectedMIDIInputs,
                                          [type |-> "remove", value |-> input])
        /\ last' = [NoCall EXCEPT !.op = "removeMIDIInput", !.device = input,
                        !.result = "true", !.events = <<"close", "remove">>]
    /\ ops' = ops + 1
    /\ UNCHANGED <<variant, midiAccess, midiInputs, midiOutputs, initPhase,
                   onErrorCalls, rejections, connectedMIDIOutputs, sendVars>>

\* input.close() settles
CloseSettles ==
    /\ \E input \in Inputs :
        /\ ports[input].closing > 0
        /\ ports' = [ports EXCEPT ![input].closing = @ - 1,
                                  ![input].connection = "closed"]
    /\ UNCHANGED <<variant, midiAccess, midiInputs, midiOutputs, initPhase,
                   onErrorCalls, rejections, connectedMIDIInputs,
                   connectedMIDIOutputs, ops, last, sendVars>>

\* addMIDIOutput(output) of the current variant
AddMIDIOutput ==
    /\ Idle
    /\ variant = "current"
    /\ ops < MaxOps
    /\ \E output \in Outputs :
        LET call == [NoCall EXCEPT !.op = "addMIDIOutput", !.device = output]
        IN  IF ~accessReady(midiAccess)
            THEN /\ last' = [call EXCEPT !.result = "false"]
                 /\ UNCHANGED connectedMIDIOutputs
            ELSE /\ connectedMIDIOutputs' =
                        reducer(connectedMIDIOutputs,
                                [type |-> "add", value |-> output])
                 /\ last' = [call EXCEPT !.result = "true",
                                 !.events = <<"add">>]
    /\ ops' = ops + 1
    /\ UNCHANGED <<variant, midiAccess, midiInputs, midiOutputs, initPhase,
                   onErrorCalls, rejections, connectedMIDIInputs, ports,
                   sendVars>>

\* removeMIDIOutput(output) of the current variant
RemoveMIDIOutput ==
    /\ Idle
    /\ variant = "current"
    /\ ops < MaxOps
    /\ \E output \in Outputs :
        /\ connectedMIDIOutputs' = reducer(connectedMIDIOutputs,
                                           [type |-> "remove", value |-> output])
        /\ last' = [NoCall EXCEPT !.op = "removeMIDIOutput", !.device = output,
                        !.result = "true", !.events = <<"remove">>]
    /\ ops' = ops + 1
    /\ UNCHANGED <<variant, midiAccess, midiInputs, midiOutputs, initPhase,
                   onErrorCalls, rejections, connectedMIDIInputs, ports,
                   sendVars>>

\* addMIDIOutput(output) of the older variant: it reads the midiAccess it has
\* closed over; a dispatch puts a new array into the registry, so the next
\* render memoizes the function anew
AddMIDIOutputOld ==
    /\ Idle
    /\ variant = "older"
    /\ ops < MaxOps
    /\ \E output \in Outputs :
        LET call == [NoCall EXCEPT !.op = "addMIDIOutput", !.device = output]
        IN  IF ~accessReady(closedOver.addMIDIOutput)
            THEN /\ last' = [call EXCEPT !.result = "false"]
                 /\ UNCHANGED <<connectedMIDIOutputs, closedOver>>
            ELSE /\ connectedMIDIOutputs' =
                        reducer(connectedMIDIOutputs,
                                [type |-> "add", value |-> output])
                 /\ closedOver' = [closedOver EXCEPT !.addMIDIOutput = midiAccess]
                 /\ last' = [call EXCEPT !.result = "true",
                                 !.events = <<"add">>]
    /\ ops' = ops + 1
    /\ UNCHANGED <<variant, midiAccess, midiInputs, midiOutputs, initPhase,
                   onErrorCalls, rejections, connectedMIDIInputs, ports,
                   store, calls, subscribers>>

\* removeMIDIOutput(output) of the older variant: filter returns a new array
RemoveMIDIOutputOld ==
    /\ Idle
    /\ variant = "older"
    /\ ops < MaxOps
    /\ \E output \in Outputs :
        /\ connectedMIDIOutputs' = reducer(connectedMIDIOutputs,
                                           [type |-> "remove", value |-> output])
        /\ last' = [NoCall EXCEPT !.op = "removeMIDIOutput", !.device = output,
                        !.result = "true", !.events = <<"remove">>]
    /\ closedOver' = [closedOver EXCEPT !.addMIDIOutput = midiAccess]
    /\ ops' = ops + 1
    /\ UNCHANGED <<variant, midiAccess, midiInputs, midiOutputs, initPhase,
                   onErrorCalls, rejections, connectedMIDIInputs, ports,
                   store, calls, subscribers>>

\* addMIDIInput(input, callback) of the older variant: openMIDIInput is called
\* and not awaited, whatever becomes of it 'add' is dispatched at once
AddMIDIInputOld ==
    /\ Idle
    /\ variant = "older"
    /\ ops < MaxOps
    /\ \E input \in Inputs, callback \in {NoCallback} \cup Callbacks :
        LET call == [NoCall EXCEPT !.op = "addMIDIInput", !.device = input,
                                   !.callback = callback]
        IN  IF ~accessReady(closedOver.addMIDIInput)
            THEN /\ last' = [call EXCEPT !.result = "false"]
                 /\ UNCHANGED <<ports, connectedMIDIInputs, closedOver>>
            ELSE LET r == openMIDIInput(input, ports[input], callback)
                 IN  /\ ports' = [ports EXCEPT ![input] = r.port]
                     /\ connectedMIDIInputs' =
                            reducer(connectedMIDIInputs,
                                    [type |-> "add", value |-> input])
                     /\ closedOver' = [closedOver EXCEPT
                                          !.addMIDIInput = midiAccess]
                     /\ last' = [call EXCEPT !.result = "true",
                                     !.events = r.events \o <<"add">>]
    /\ ops' = ops + 1
    /\ UNCHANGED <<variant, midiAccess, midiInputs, midiOutputs, initPhase,
                   onErrorCalls, rejections, connectedMIDIOutputs,
                   store, calls, subscribers>>

\* removeMIDIInput(input) of the older variant
RemoveMIDIInputOld ==
    /\ Idle
    /\ variant = "older"
    /\ ops < MaxOps
    /\ \E input \in Inputs :
        /\ ports' = [ports EXCEPT ![input].closing = @ + 1,
                                  ![input].closeAfterOpen = TRUE]
        /\ connectedMIDIInputs' = reducer(connectedMIDIInputs,
                                          [type |-> "remove", value |-> input])
        /\ last' = [NoCall EXCEPT !.op = "removeMIDIInput", !.device = input,
                        !.result = "true", !.events = <<"close", "remove">>]
    /\ closedOver' = [closedOver EXCEPT !.addMIDIInput = midiAccess]
    /\ ops' = ops + 1
    /\ UNCHANGED <<variant, midiAccess, midiInputs, midiOutputs, initPhase,
                   onErrorCalls, rejections, connectedMIDIOutputs,
                   store, calls, subscribers>>

\* input.open() settles in the older variant, where nobody awaits it
OpenSettlesOld ==
    /\ variant = "older"
    /\ \E input \in Inputs, resolved \in BOOLEAN :
        /\ ports[input].opening > 0
        /\ ports' = [ports EXCEPT
                        ![input].opening = @ - 1,
                        ![input].connection = IF resolved THEN "open" ELSE @]
    /\ UNCHANGED <<variant, midiAccess, midiInputs, midiOutputs, initPhase,
                   onErrorCalls, rejections, connectedMIDIInputs,
                   connectedMIDIOutputs, ops, last, sendVars>>

\* subscribe(callback): the callback joins the Set of subscribers
Subscribe ==
    /\ Idle
    /\ \E callback \in Callbacks :
        /\ subscribers' = subscribers \cup {callback}
        /\ last' = [NoCall EXCEPT !.op = "subscribe", !.callback = callback]
    /\ UNCHANGED <<store, calls, variant, midiAccess, midiInputs, midiOutputs,
                   initPhase, onErrorCalls, rejections, connectedMIDIInputs,
                   connectedMIDIOutputs, ports, ops, closedOver>>

\* the function subscribe(callback) returned is called: the callback leaves
\* the Set of subscribers
Unsubscribe ==
    /\ Idle
    /\ \E callback \in subscribers :
        /\ subscribers' = subscribers \ {callback}
        /\ last' = [NoCall EXCEPT !.op = "unsubscribe", !.callback = callback]
    /\ UNCHANGED <<store, calls, variant, midiAccess, midiInputs, midiOutputs,
                   initPhase, onErrorCalls, rejections, connectedMIDIInputs,
                   connectedMIDIOutputs, ports, ops, closedOver>>

\* the value store by itself: writes and lookups
NextStore == SetMIDIValue \/ GetMIDIValue \/ Forget
SpecStore == Init /\ [][NextStore]_vars

\* the provider's send facades and lookups
Next == SendMIDICC \/ SendMIDINoteOn \/ SendMIDINoteOff \/ GetMIDIValue \/ Forget
Spec == Init /\ [][Next]_vars

\* the message encoder by itself
NextEncoder == SendMIDIMessage \/ SendMIDIMessageOld \/ Forget
SpecEncoder == Init /\ [][NextEncoder]_vars

\* the provider's access request and device registries, either variant
NextProvider ==
    \/ InitializeMIDI \/ AccessGranted \/ AccessRejected
    \/ AddMIDIInput \/ OpenResolves \/ OpenRejects
    \/ RemoveMIDIInput \/ CloseSettles
    \/ AddMIDIOutput \/ RemoveMIDIOutput
    \/ Forget
SpecProvider == InitProvider /\ [][NextProvider]_vars

\* addMIDIInput of the current variant with anything a caller can hand it
NextUntyped ==
    \/ InitializeMIDI \/ AccessGranted \/ AccessRejected
    \/ AddMIDIInput \/ AddMIDIInputNonHandle
    \/ OpenResolves \/ OpenRejects
    \/ Forget
SpecUntyped == InitProvider /\ [][NextUntyped]_vars

\* the device-bound helpers of useMIDIOutput and useMIDIActions
NextBound ==
    \/ BoundSendMIDICC \/ BoundSendMIDIMessage
    \/ BoundSendMIDINoteOn \/ BoundSendMIDINoteOff
    \/ Forget
SpecBound == Init /\ [][NextBound]_vars

\* the older variant of the provider
InitOlder ==
    /\ store = EmptyStore
    /\ last = NoCall
    /\ calls = 0
    /\ ProviderInit("older")

NextOlder ==
    \/ InitializeMIDI \/ AccessGranted \/ AccessRejected
    \/ AddMIDIInputOld \/ RemoveMIDIInputOld
    \/ AddMIDIOutputOld \/ RemoveMIDIOutputOld
    \/ OpenSettlesOld \/ CloseSettles
    \/ Forget
SpecOlder == InitOlder /\ [][NextOlder]_vars

\* the value store with its subscribers
NextSubscribe == Subscribe \/ Unsubscribe \/ SendMIDICC \/ Forget
SpecSubscribe == Init /\ [][NextSubscribe]_vars

---------------------------------------------------------------------------
(* Reading the store *)

\* store.byChannel[ch][cc], undefined when it was never written
ChannelValue(s, ch, cc) ==
    IF HasKey(s.byChannel, ch) /\ HasKey(s.byChannel[ch], cc)
    THEN s.byChannel[ch][cc] ELSE Undefined

\* store.byDevice[d][ch][cc], undefined when it was never written
DeviceValue(s, d, ch, cc) ==
    IF /\ HasKey(s.byDevice, d)
       /\ HasKey(s.byDevice[d], ch)
       /\ HasKey(s.byDevice[d][ch], cc)
    THEN s.byDevice[d][ch][cc] ELSE Undefined

\* the query {channel, cc}, {device, channel}, {device}
Query(channel, cc, device) ==
    [channel |-> channel, cc |-> cc, device |-> device, absent |-> FALSE]

IsNumber(x) == typeof(x) = "number"

---------------------------------------------------------------------------
(* C1 - C4: the value store, under SpecStore *)

\* C1: after set(device, channel, cc, value), get({channel, cc}) returns exactly
\* that value, for every channel and controller number, 0 included.
C1_RoundTrip ==
    last.op = "set" =>
        LET g == get(store, Query(last.channel, last.cc, NoDevice))
        IN  g.kind = "value" /\ g.val = last.value

\* C2: after set(device, channel, cc, value), get({device, channel}) completes
\* without raising and returns a list of records that includes cc -> value.
C2_DeviceLookup ==
    last.op = "set" =>
        LET g == get(store, Query(last.channel, Undefined, last.device))
        IN  /\ g.kind # "TypeError"
            /\ g.kind = "list"
            /\ \E i \in DOMAIN g.val :
                   g.val[i].cc = last.cc /\ g.val[i].value = last.value

\* the lookup on record asked for a channel (with a controller number) or for a
\* device that the store has never been written for
NeverWrittenLookup ==
    /\ last.op = "get"
    /\ ~last.absent
    /\ \/ /\ last.device # NoDevice
          /\ ~HasKey(store.byDevice, last.device)
       \/ /\ last.device = NoDevice
          /\ last.channel # Undefined
          /\ last.cc # Undefined
          /\ ~HasKey(store.byChannel, last.channel)

\* C3: a lookup of a channel or of a device that was never written is not an
\* error: it returns (an empty or undefined result) and never raises.
C3_NeverWrittenNoError ==
    NeverWrittenLookup => ~last.raised /\ last.got.kind # "TypeError"

\* the step is a write to the store: a call of set, or any change of an index
WriteStep ==
    \/ last.op = "none" /\ last'.op = "set"
    \/ store'.byChannel # store.byChannel
    \/ store'.byDevice # store.byDevice

\* neither index holds an entry the other lacks: the by-channel value of a pair
\* is the by-device value of some device, and a pair some device has written
\* has a by-channel value
NotHalfWritten(s) ==
    \A ch \in Channels, cc \in CCs :
        /\ ChannelValue(s, ch, cc) # Undefined =>
               \E d \in DeviceIds : DeviceValue(s, d, ch, cc) = ChannelValue(s, ch, cc)
        /\ \A d \in DeviceIds :
               DeviceValue(s, d, ch, cc) # Undefined => ChannelValue(s, ch, cc) # Undefined

\* C4: every update writes the value into both indexes in one step: a step that
\* writes at all leaves byChannel[channel][cc] = value and
\* byDevice[device][channel][cc] = value, and no state reached has one index
\* written and the other not.
C4_AtomicUpdate ==
    [][/\ NotHalfWritten(store')
       /\ WriteStep =>
             /\ last'.op = "set"
             /\ ChannelValue(store', last'.channel, last'.cc) = last'.value
             /\ DeviceValue(store', last'.device, last'.channel, last'.cc) = last'.value
      ]_vars

\* a second device has overwritten the by-channel value of a pair that the first
\* device had written with another value
C4_Witness ==
    /\ last.op = "set"
    /\ calls = 2
    /\ ChannelValue(store, last.channel, last.cc) = last.value
    /\ DeviceValue(store, last.device, last.channel, last.cc) = last.value
    /\ \E d \in DeviceIds \ {last.device} :
           /\ IsNumber(DeviceValue(store, d, last.channel, last.cc))
           /\ DeviceValue(store, d, last.channel, last.cc) # last.value

---------------------------------------------------------------------------
(* C5 - C9: the send facades, under Spec *)

\* the one message the call on record handed to device.send
SentExactly(device, b0, b1, b2) ==
    /\ Len(last.sent) = 1
    /\ last.sent[1].device = device
    /\ last.sent[1].msg = <<b0, b1, b2>>

\* C5: sendMIDICC treats a numeric 0 for channel, cc or value as a number, not
\* as a missing argument: the call does not raise, hands
\* [0xB0 + channel, cc, value] to the device and stores value at
\* (device.id, channel, cc).
C5_ZeroAccepted ==
    ( /\ last.op = "sendMIDICC"
      /\ IsNumber(last.channel) /\ IsNumber(last.cc) /\ IsNumber(last.value)
      /\ last.device # NoDevice
      /\ (last.channel.v = 0 \/ last.cc.v = 0 \/ last.value.v = 0) )
    => /\ ~last.raised
       /\ SentExactly(last.device, Num(176 + last.channel.v), last.cc, last.value)
       /\ DeviceValue(store, last.device, last.channel, last.cc) = last.value

\* sendMIDICC({channel: 1, cc: 64, value: 0, device}) sent [0xB1, 64, 0] and
\* stored 0
C5_Witness ==
    /\ last.op = "sendMIDICC"
    /\ last.channel = Num(1) /\ last.cc = Num(64) /\ last.value = Num(0)
    /\ ~last.raised
    /\ SentExactly("out1", Num(177), Num(64), Num(0))
    /\ DeviceValue(store, "out1", Num(1), Num(64)) = Num(0)

\* C6: when channel, cc or value is missing or not a number, or device is
\* missing, sendMIDICC raises before anything is sent and leaves both indexes of
\* the store as they were.
C6_FailFast ==
    [][( /\ last.op = "none"
         /\ last'.op = "sendMIDICC"
         /\ \/ ~IsNumber(last'.channel)
            \/ ~IsNumber(last'.cc)
            \/ ~IsNumber(last'.value)
            \/ last'.device = NoDevice )
       => /\ last'.raised
          /\ last'.sent = << >>
          /\ last'.events = << >>
          /\ store'.byChannel = store.byChannel
          /\ store'.byDevice = store.byDevice
      ]_vars

\* a call with a value that is not a number raised against a store that holds
\* something, and nothing was sent
C6_Witness ==
    /\ last.op = "sendMIDICC"
    /\ IsNumber(last.channel) /\ IsNumber(last.cc)
    /\ last.value = Undefined
    /\ last.device # NoDevice
    /\ last.raised
    /\ last.sent = << >>
    /\ calls > 0

\* C7: with valid arguments sendMIDICC first hands [0xB0 + channel, cc, value]
\* to device.send, then writes the store, and afterwards get({channel, cc})
\* yields the value just sent.
C7_SendThenStore ==
    (last.op = "sendMIDICC" /\ ~last.raised) =>
        /\ last.events = <<"send", "set">>
        /\ SentExactly(last.device, Num(176 + last.channel.v), last.cc, last.value)
        /\ LET g == get(store, Query(last.channel, last.cc, NoDevice))
           IN  g.kind = "value" /\ g.val = last.value

\* the arguments of the sendMIDINoteOn call on record are valid: channel and
\* pitch are numbers, value and velocity are numbers or left out and one of
\* them is a number, and there is a device
NoteOnValid(c) ==
    /\ c.op = "sendMIDINoteOn"
    /\ IsNumber(c.channel) /\ IsNumber(c.pitch)
    /\ typeof(c.value) \in {"number", "undefined"}
    /\ typeof(c.velocity) \in {"number", "undefined"}
    /\ IsNumber(c.value) \/ IsNumber(c.velocity)
    /\ c.device # NoDevice

\* C8: sendMIDINoteOn hands [0x90 + channel, pitch, v] to the device, v being
\* value if value was given and velocity otherwise, and leaves both indexes of
\* the store unchanged.
C8_NoteOnFrame ==
    [][(last.op = "none" /\ NoteOnValid(last'))
       => /\ ~last'.raised
          /\ Len(last'.sent) = 1
          /\ last'.sent[1].device = last'.device
          /\ last'.sent[1].msg =
                <<Num(144 + last'.channel.v), last'.pitch,
                  IF last'.value # Undefined THEN last'.value ELSE last'.velocity>>
          /\ store'.byChannel = store.byChannel
          /\ store'.byDevice = store.byDevice
      ]_vars

\* a note on channel 1, pitch 60, with value 0 and velocity 1 both given, sent
\* [0x91, 60, 0] while the store held a controller value
C8_Witness ==
    /\ NoteOnValid(last)
    /\ last.channel = Num(1) /\ last.pitch = Num(60)
    /\ last.value = Num(0) /\ last.velocity = Num(1)
    /\ SentExactly(last.device, Num(145), Num(60), Num(0))
    /\ calls > 0

\* C9: sendMIDINoteOff hands exactly [0x80 + channel, pitch, 0] to the device for
\* every numeric channel and pitch and a present device, and raises before
\* sending when channel, pitch or device is missing.
C9_NoteOffZero ==
    last.op = "sendMIDINoteOff" =>
        /\ (IsNumber(last.channel) /\ IsNumber(last.pitch) /\ last.device # NoDevice)
           => /\ ~last.raised
              /\ SentExactly(last.device, Num(128 + last.channel.v), last.pitch, Num(0))
        /\ (last.channel = Undefined \/ last.pitch = Undefined \/ last.device = NoDevice)
           => /\ last.raised
              /\ last.sent = << >>

\* sendMIDINoteOff({channel: 1, pitch: 60, device}) sent [0x81, 60, 0]
C9_Witness ==
    /\ last.op = "sendMIDINoteOff"
    /\ ~last.raised
    /\ SentExactly("out1", Num(129), Num(60), Num(0))

---------------------------------------------------------------------------
(* C10: the status-byte table, under SpecEncoder *)

\* C10: translateTypeToStatusByte returns noteOff 0x80, noteOn 0x90,
\* afterTouch 0xA0, cc 0xB0, controlChange 0xB0, programChange 0xC0,
\* channelPressure 0xD0, pitchWheel 0xE0, and 0x00 for every other type string.
C10_StatusByteTable ==
    (last.op = "sendMIDIMessage" /\ last.type # TypeAbsent) =>
        /\ last.type = "noteOff" => last.firstStatusByte = 128
        /\ last.type = "noteOn" => last.firstStatusByte = 144
        /\ last.type = "afterTouch" => last.firstStatusByte = 160
        /\ last.type = "cc" => last.firstStatusByte = 176
        /\ last.type = "controlChange" => last.firstStatusByte = 176
        /\ last.type = "programChange" => last.firstStatusByte = 192
        /\ last.type = "channelPressure" => last.firstStatusByte = 208
        /\ last.type = "pitchWheel" => last.firstStatusByte = 224
        /\ last.type \notin KnownTypes => last.firstStatusByte = 0

\* an afterTouch message on channel 1 went out with status byte 0xA1
C10_Witness ==
    /\ last.op = "sendMIDIMessage"
    /\ last.type = "afterTouch"
    /\ last.firstStatusByte = 160
    /\ Len(last.sent) = 1
    /\ last.sent[1].msg[1] = Num(161)

---------------------------------------------------------------------------
(* C11, C12: the message encoder, under SpecEncoder *)

\* the upper nibble of the status byte of a recognised type
TypeNibble(type) ==
    CASE type = "noteOff" -> 8
      [] type = "noteOn" -> 9
      [] type = "afterTouch" -> 10
      [] type \in {"cc", "controlChange"} -> 11
      [] type = "programChange" -> 12
      [] type = "channelPressure" -> 13
      [] type = "pitchWheel" -> 14

\* the channel of the call on record, 0 when it was left out
ChannelOrZero == IF last.channel = Undefined THEN 0 ELSE last.channel.v

\* C11: for every recognised type and every channel in 0..15 the first byte
\* sendMIDIMessage sends is statusByte(type) + channel: its upper nibble is the
\* type's, its lower nibble the channel, it lies in 0x80..0xEF, and a channel
\* left out counts as 0.
C11_StatusByteComposition ==
    ( /\ last.op = "sendMIDIMessage"
      /\ last.type \in KnownTypes
      /\ last.device # NoDevice )
    => /\ Len(last.sent) = 1
       /\ LET b == last.sent[1].msg[1]
          IN  /\ b.t = "number"
              /\ b.v = last.firstStatusByte + ChannelOrZero
              /\ b.v \div 16 = TypeNibble(last.type)
              /\ b.v % 16 = ChannelOrZero
              /\ b.v >= 128 /\ b.v <= 239

\* a pitchWheel message on channel 15 went out with status byte 0xEF
C11_Witness ==
    /\ last.op = "sendMIDIMessage"
    /\ Len(last.sent) = 1
    /\ last.type = "pitchWheel"
    /\ last.channel = Num(15)
    /\ last.sent[1].msg[1] = Num(239)


\* C12: sendMIDIMessage never lets a failure of device.send reach its caller:
\* given one handle or (older variant) a list of handles, when a send raises
\* it still returns a string and raises nothing.
C12_SendFailureCaught ==
    ( /\ last.op \in {"sendMIDIMessage", "sendMIDIMessageOld"}
      /\ \E i \in DOMAIN last.sent : ~last.sent[i].ok )
    => /\ ~last.raised
       /\ last.result # ""


---------------------------------------------------------------------------
(* Device registries *)

\* the entries of a registry carry pairwise different ids
UniqueById(registry) ==
    \A i, j \in DOMAIN registry :
        HandleId(registry[i]) = HandleId(registry[j]) => i = j

\* C13: each of connectedMIDIInputs and connectedMIDIOutputs holds at most one
\* entry per device id, also after two adds of handles that share an id.
C13_RegistryUniqueById ==
    /\ UniqueById(connectedMIDIInputs)
    /\ UniqueById(connectedMIDIOutputs)

\* a step that is a call of one of the remove functions
RemoveStep == Idle /\ last'.op \in {"removeMIDIInput", "removeMIDIOutput"}

\* after is before without the entries whose id is id, the others in order
WithoutId(before, after, id) ==
    LET other(item) == HandleId(item) # id
    IN  /\ after = SelectSeq(before, other)
        /\ (\A i \in DOMAIN before : other(before[i])) => after = before

\* C14: a remove yields the registry minus every entry whose id is that of the
\* device given, the other entries and their order unchanged; with no such
\* entry the registry is unchanged; the call raises nothing.
C14_RegistryRemove ==
    [][RemoveStep =>
        /\ ~last'.raised
        /\ last'.result = "true"
        /\ IF last'.op = "removeMIDIInput"
           THEN /\ WithoutId(connectedMIDIInputs, connectedMIDIInputs',
                             HandleId(last'.device))
                /\ UNCHANGED connectedMIDIOutputs
           ELSE /\ WithoutId(connectedMIDIOutputs, connectedMIDIOutputs',
                             HandleId(last'.device))
                /\ UNCHANGED connectedMIDIInputs]_vars

\* removeMIDIOutput was given a handle that is not in the registry but shares
\* its id with an entry: the entry is gone, the one with another id stays
C14_Witness ==
    /\ last.op = "removeMIDIOutput"
    /\ last.device = "out1#b"
    /\ connectedMIDIOutputs = <<"out2#a">>
    /\ ops = 3


---------------------------------------------------------------------------
(* Opening inputs *)

InRegistry(h, registry) == \E i \in DOMAIN registry : registry[i] = h

\* the record of a call of addMIDIInput that invoked input.open(): the handler
\* was attached first
HandlerBeforeOpen(c) ==
    (c.op = "addMIDIInput" /\ \E i \in DOMAIN c.events : c.events[i] = "open")
    => c.events = <<"onmidimessage", "open">>

\* C15 as stated: the handler is attached before open is invoked, and an input
\* whose open is pending is not in connectedMIDIInputs.
C15_NotRegisteredWhilePending ==
    /\ HandlerBeforeOpen(last)
    /\ \A h \in Inputs :
           ports[h].opening > 0 => ~InRegistry(h, connectedMIDIInputs)

\* C15, amended: the handler is attached before open is invoked; the call that
\* invokes open does not touch connectedMIDIInputs; an input enters
\* connectedMIDIInputs only when an open of it completes, or when it was open
\* already and the call skipped open.
C15_OpenOrdering ==
    [][\A h \in Inputs :
        /\ ports'[h].opening > ports[h].opening
           => /\ HandlerBeforeOpen(last')
              /\ last'.device = h
              /\ ports'[h].onmidimessage # "null"
              /\ UNCHANGED connectedMIDIInputs
        /\ (~InRegistry(h, connectedMIDIInputs) /\ InRegistry(h, connectedMIDIInputs'))
           => /\ ports'[h].connection = "open"
              /\ \/ ports'[h].opening < ports[h].opening
                 \/ ports[h].connection = "open" /\ UNCHANGED ports]_vars

\* the open of an input given with a callback has completed and the input has
\* entered the registry
C15_Witness ==
    /\ last.op = "addMIDIInput"
    /\ last.events = <<"opened", "add">>
    /\ last.device = "in1#a"
    /\ connectedMIDIInputs = <<"in1#a">>
    /\ ports["in1#a"].onmidimessage = "callback"
    /\ ports["in1#a"].opening = 0

\* C16: addMIDIInput on a handle without an open function, or whose open
\* rejects, resolves false, raises nothing and leaves connectedMIDIInputs as
\* it was.
C16_OpenFailureReportsFalse ==
    [][( \/ /\ Idle
            /\ last'.op = "addMIDIInput"
            /\ last'.device = "in3#a"
         \/ /\ last'.op = "addMIDIInput"
            /\ last'.events = <<"open failed">> )
       => /\ last'.result = "false"
          /\ ~last'.raised
          /\ UNCHANGED connectedMIDIInputs]_vars

\* access was there, the handle had no open function, the call resolved false
C16_Witness ==
    /\ last.op = "addMIDIInput"
    /\ last.device = "in3#a"
    /\ midiAccess = "access"
    /\ last.events = <<"onmidimessage">>
    /\ last.result = "false"

\* C17: while midiAccess is not there, addMIDIInput and addMIDIOutput return
\* false, invoke no open, raise nothing and leave both registries unchanged.
C17_AddBeforeAccess ==
    [][( /\ Idle
         /\ last'.op \in {"addMIDIInput", "addMIDIOutput"}
         /\ midiAccess # "access" )
       => /\ last'.result = "false"
          /\ ~last'.raised
          /\ last'.events = << >>
          /\ UNCHANGED <<connectedMIDIInputs, connectedMIDIOutputs, ports>>]_vars

\* addMIDIInput was called while the access request was still awaited
C17_Witness ==
    /\ last.op = "addMIDIInput"
    /\ initPhase = "requesting"
    /\ midiAccess = "null"
    /\ last.result = "false"

---------------------------------------------------------------------------
(* Initialization *)

InitFailed == initPhase \in {"unsupported", "denied"}

\* C18: when requestMIDIAccess is missing or its request is rejected, the error
\* is reported once, through onError (current variant) or a rejected result
\* (older variant), and midiAccess, midiInputs, midiOutputs keep their initial
\* values.
C18_InitFailureSurfaced ==
    /\ InitFailed
       => /\ variant = "current" => onErrorCalls = 1 /\ rejections = 0
          /\ variant = "older" => onErrorCalls = 0 /\ rejections = 1
          /\ midiAccess = (IF variant = "current" THEN "null" ELSE "{}")
          /\ midiInputs = << >>
          /\ midiOutputs = << >>
    /\ ~InitFailed => onErrorCalls = 0 /\ rejections = 0

\* the request was rejected and onError has been called
C18_Witness ==
    /\ initPhase = "denied"
    /\ variant = "current"
    /\ onErrorCalls = 1


---------------------------------------------------------------------------
(* Subscribers of the value store *)

\* C19: between subscribe(callback) and the call of the function it returned,
\* every sendMIDICC that writes the store invokes callback; a callback that is
\* not subscribed is not invoked.
C19_SubscriptionDelivery ==
    ( /\ last.op = "sendMIDICC"
      /\ \E i \in DOMAIN last.events : last.events[i] = "set" )
    => \A callback \in Callbacks :
           callback \in subscribers
           <=> \E i \in DOMAIN last.events : last.events[i] = callback

---------------------------------------------------------------------------
(* Idempotence of the write *)

\* the arguments set is called with
StoreTuples == [channel : Channels, cc : CCs, value : Values, device : DeviceIds]

\* C20: for every store state and every tuple (device, channel, cc, value),
\* writing the tuple twice leaves both indexes as writing it once does.
C20_UpdateIdempotent ==
    \A t \in StoreTuples :
        LET once == set(store, t)
            twice == set(once, t)
        IN  /\ twice.byChannel = once.byChannel
            /\ twice.byDevice = once.byDevice

\* two writes have been made and a further write can still change the store
C20_Witness ==
    /\ last.op = "set"
    /\ calls = 2
    /\ \E t \in StoreTuples :
           /\ set(store, t) # store
           /\ set(set(store, t), t) = set(store, t)


---------------------------------------------------------------------------
(* What the store holds *)

\* C21: the store holds only values that were transmitted: a sendMIDICC whose
\* device.send returned leaves its value at (device, channel, cc), and a
\* sendMIDICC whose device.send raised leaves the store as it was.
C21_StoreHoldsSentValues ==
    [][(Idle /\ last'.op = "sendMIDICC" /\ ~last'.raised) =>
        IF \A i \in DOMAIN last'.sent : last'.sent[i].ok
        THEN DeviceValue(store', last'.device, last'.channel, last'.cc)
                 = last'.sent[1].msg[3]
        ELSE store' = store]_vars

\* C22: after a write by d1 and then a write by another device d2 to the same
\* channel and cc, the by-channel index holds d2's value, the by-device index
\* holds d2's value for d2 and still d1's value for d1.  (Every reachable
\* store is also reached with no call on record, so the two writes are tried
\* from those states.)
C22_LastWriterWins ==
    Idle =>
    \A t1 \in StoreTuples, t2 \in StoreTuples :
        (t1.device # t2.device /\ t1.channel = t2.channel /\ t1.cc = t2.cc)
        => \A s \in {set(set(store, t1), t2)} :
               /\ ChannelValue(s, t2.channel, t2.cc) = t2.value
               /\ DeviceValue(s, t2.device, t2.channel, t2.cc) = t2.value
               /\ DeviceValue(s, t1.device, t1.channel, t1.cc) = t1.value

\* out1 wrote a value, then out2 wrote another one to the same channel and cc
C22_Witness ==
    /\ last.op = "set"
    /\ last.device = "out2"
    /\ calls = 2
    /\ ChannelValue(store, last.channel, last.cc) = last.value
    /\ DeviceValue(store, "out2", last.channel, last.cc) = last.value
    /\ IsNumber(DeviceValue(store, "out1", last.channel, last.cc))
    /\ DeviceValue(store, "out1", last.channel, last.cc) # last.value
    /\ store = set(set(EmptyStore, [channel |-> last.channel, cc |-> last.cc,
                                    value |-> DeviceValue(store, "out1",
                                                          last.channel, last.cc),
                                    device |-> "out1"]),
                   [channel |-> last.channel, cc |-> last.cc,
                    value |-> last.value, device |-> "out2"])

\* every triple of the by-device index has its pair in the by-channel index,
\* and the by-channel value of a pair is the by-device value of some device
IndexesAgree(s) ==
    \A ch \in Channels, cc \in CCs :
        /\ \A d \in DeviceIds :
               DeviceValue(s, d, ch, cc) # Undefined
               => ChannelValue(s, ch, cc) # Undefined
        /\ ChannelValue(s, ch, cc) # Undefined
           => \E d \in DeviceIds :
                  DeviceValue(s, d, ch, cc) = ChannelValue(s, ch, cc)

\* C27: after every update the by-channel value of the pair written is the
\* by-device value of the device that wrote it, every triple of the by-device
\* index has its pair in the by-channel index, and no other pair or triple
\* has changed in either index.
C27_CrossIndexConsistency ==
    [][(Idle /\ last'.op = "set") =>
        /\ ChannelValue(store', last'.channel, last'.cc) = last'.value
        /\ DeviceValue(store', last'.device, last'.channel, last'.cc)
               = ChannelValue(store', last'.channel, last'.cc)
        /\ IndexesAgree(store')
        /\ \A ch \in Channels, cc \in CCs :
               /\ <<ch, cc>> # <<last'.channel, last'.cc>>
                  => ChannelValue(store', ch, cc) = ChannelValue(store, ch, cc)
               /\ \A d \in DeviceIds :
                      <<d, ch, cc>> # <<last'.device, last'.channel, last'.cc>>
                      => DeviceValue(store', d, ch, cc)
                             = DeviceValue(store, d, ch, cc)]_vars

\* a device has overwritten the pair another device wrote before, and the
\* other device's triple still holds the older value
C27_Witness ==
    /\ last.op = "set"
    /\ last.device = "out1"
    /\ calls = 2
    /\ DeviceValue(store, "out1", last.channel, last.cc) = last.value
    /\ ChannelValue(store, last.channel, last.cc) = last.value
    /\ IsNumber(DeviceValue(store, "out2", last.channel, last.cc))
    /\ DeviceValue(store, "out2", last.channel, last.cc) # last.value

---------------------------------------------------------------------------
(* Status bytes of the older variant *)

\* the type sendMIDIMessage hands to the table: 'cc' when none was given
TypeGiven(c) == IF c.type = TypeAbsent THEN "cc" ELSE c.type

---------------------------------------------------------------------------
(* Closing and reopening inputs *)

\* C23: removeMIDIInput invokes the input's close and leaves the input in
\* connectedMIDIInputs while that close is pending; an input leaves the
\* registry only in a step in which a close of it settles.
C23_RemoveAfterCloseSettles ==
    [][\A h \in Inputs :
        /\ (Idle /\ last'.op = "removeMIDIInput" /\ last'.device = h)
           => /\ ports'[h].closing = ports[h].closing + 1
              /\ InRegistry(h, connectedMIDIInputs)
                 => InRegistry(h, connectedMIDIInputs')
        /\ (InRegistry(h, connectedMIDIInputs) /\ ~InRegistry(h, connectedMIDIInputs'))
           => ports'[h].closing < ports[h].closing]_vars

\* the step is a call of addMIDIInput(h, callback), up to its await
AddCallStep(h) ==
    /\ Idle
    /\ last'.op = "addMIDIInput"
    /\ last'.device = h
    /\ last'.events # <<"opened", "add">>
    /\ last'.events # <<"open failed">>

\* C25: on an input whose connection is 'open', openMIDIInput without a
\* callback leaves the handle as it is, handler included, and invokes no open;
\* with a callback it replaces the handler by the wrapped callback and invokes
\* open.
C25_ReopenWithoutCallback ==
    [][\A h \in Inputs :
        (AddCallStep(h) /\ midiAccess = "access" /\ ports[h].connection = "open")
        => IF last'.callback = NoCallback
           THEN /\ ports'[h] = ports[h]
                /\ last'.events = <<"add">>
           ELSE /\ ports'[h].onmidimessage = "callback"
                /\ ports'[h].opening = ports[h].opening + 1
                /\ last'.events = <<"onmidimessage", "open">>]_vars

\* an input opened with a callback was added again without one: the wrapped
\* callback is still its handler and no open is pending
C25_Witness ==
    /\ last.op = "addMIDIInput"
    /\ last.device = "in1#a"
    /\ last.callback = NoCallback
    /\ last.events = <<"add">>
    /\ ports["in1#a"].connection = "open"
    /\ ports["in1#a"].onmidimessage = "callback"
    /\ ports["in1#a"].opening = 0

\* C26: whatever the interleaving of addMIDIInput and removeMIDIInput on an
\* input, the input is not in connectedMIDIInputs when close was invoked on it
\* after its most recent open was invoked.
C26_ConnectedInputsOpen ==
    \A h \in Inputs :
        InRegistry(h, connectedMIDIInputs) => ~ports[h].closeAfterOpen

\* C28: only handle objects enter connectedMIDIInputs, and addMIDIInput with a
\* missing or non-object input resolves false and leaves the registry as it
\* was.
C28_OnlyHandlesRegistered ==
    /\ \A i \in DOMAIN connectedMIDIInputs : connectedMIDIInputs[i] \in Inputs
    /\ (last.op = "addMIDIInput" /\ last.device \notin Inputs)
       => last.result = "false"


---------------------------------------------------------------------------
(* Device-bound helpers *)

BoundOps == {"bound.sendMIDICC", "bound.sendMIDIMessage",
             "bound.sendMIDINoteOn", "bound.sendMIDINoteOff"}

\* C29: every message a device-bound helper sends goes to the bound device,
\* whatever the command carries, a device field included.
C29_BoundDeviceTargeted ==
    (last.op \in BoundOps)
    => /\ \A i \in DOMAIN last.sent : last.sent[i].device = last.bound
       /\ ~last.raised => Len(last.sent) = 1


---------------------------------------------------------------------------
(* Registry functions of the older variant *)

\* C30: in the older variant, once access is granted and the provider has
\* rendered again, addMIDIOutput and addMIDIInput return true and the device
\* is in its registry afterwards, whatever registry calls came before.
C30_OlderAddAfterAccess ==
    [][( /\ Idle
         /\ variant = "older"
         /\ midiAccess = "access"
         /\ last'.op \in {"addMIDIInput", "addMIDIOutput"} )
       => /\ last'.result = "true"
          /\ IF last'.op = "addMIDIInput"
             THEN InRegistry(last'.device, connectedMIDIInputs')
             ELSE InRegistry(last'.device, connectedMIDIOutputs')]_vars

====
